---- MODULE Spec2Model ----
(***************************************************************************)
(* Model of rail.estimation.classifier.PZClassifier: the chunked           *)
(* classify -> run -> finalize protocol and the life cycle of the output   *)
(* handle it drives.  The chunk iterator, the output handle and the        *)
(* concrete per-chunk routine live in other modules of the package         *)
(* (rail.core.stage, rail.core.data, rail.estimation.algos) and are        *)
(* modelled from their documented contract.                                *)
(***************************************************************************)
EXTENDS Integers, Sequences, FiniteSets, TLC

\* ---------------------------------------------------------------- bounds
MaxLen == 5
MaxChunkSize == 2
MaxRuns == 2
MaxOpens == 2
MaxProcs == 2

\* ------------------------------------------------------------- constants
\* _output_handle = None
None == 0
\* value of _input_length before input_iterator has set it
NoLength == -1
\* a row of the output sink that no write_chunk has covered yet
Empty == 0
\* a row of the input on which the per-chunk routine of the subclass fails
Bad == -1

VARIABLES
    hook,            \* "base": _process_chunk not overridden; "subclass": overridden
    chunk_size,      \* config.chunk_size
    comm,            \* self.comm, given at construction
    input,           \* the data bound to the 'input' slot
    pc,              \* position of the current classify()/run() invocation
    first,           \* local variable first of run()
    iterPos,         \* the chunk iterator: index of the next row to hand out
    _input_length,   \* self._input_length, set by input_iterator
    _output_handle,  \* self._output_handle: None or a handle identity
    handles,         \* every output handle object ever created, by identity
    trace,           \* calls made by the current invocation, in order
    error,           \* the exception that left run(), "none" if none
    returned,        \* the handle classify() returned, None if it has not
    runs,            \* archive of the earlier invocations on this stage
    name,            \* the class of the stage: "PZClassifier" or "CatClassifier"
    model,           \* CatClassifier: self.model
    config_model,    \* CatClassifier: self.config['model']
    model_slot,      \* CatClassifier: what the 'model' slot of the stage is bound to
    model_calls,     \* CatClassifier: the set_data('model', ...) calls made so far
    last_open,       \* CatClassifier: argument and result of the last open_model
    cat_pc,          \* CatClassifier: position of the classify() invocation
    cat_trace,       \* CatClassifier: the steps classify() has taken, in order
    cat_returned,    \* CatClassifier: what classify() returned, "none" if it has not
    procs            \* the cooperating processes of a parallel run, by rank + 1

\* the state of a CatClassifier stage and of a parallel run
catvars == <<model, config_model, model_slot, model_calls, last_open,
             cat_pc, cat_trace, cat_returned>>

vars == <<hook, chunk_size, comm, input, pc, first, iterPos, _input_length,
          _output_handle, handles, trace, error, returned, runs, name,
          catvars, procs>>

\* -------------------------------------------------------------- helpers
Min(a, b) == IF a < b THEN a ELSE b

\* one entry of the call trace
Ev(op, h, a, b, d, c) == [op |-> op, h |-> h, a |-> a, b |-> b, d |-> d, c |-> c]

\* rows start+1 .. end of a sequence (the slice data[start:end])
Slice(data, start, end) == [i \in 1..(end - start) |-> data[start + i]]

\* an input table of L rows whose row b (1-based, 0 = no such row) is Bad
MakeInput(L, b) == [i \in 1..L |-> IF i = b THEN Bad ELSE i % 2]

\* the Bad row, if any, is the first or the last: a failure in the first chunk
\* (before any output exists) or in the last one (after all earlier writes)
Inputs == UNION { { MakeInput(L, b) : b \in {0, Min(1, L), L} } : L \in 0..MaxLen }

\* ------------------------------------------------ output handle (Hdf5Handle)
NewHandle(data) ==
    [state |-> "UNALLOCATED", total_length |-> NoLength, comm |-> "unset",
     data |-> data, sink |-> <<>>, log |-> <<>>]

initialize_write(hd, data_length, communicator) ==
    [hd EXCEPT !.state = "WRITING",
               !.total_length = data_length,
               !.comm = communicator,
               !.sink = [i \in 1..data_length |-> Empty],
               !.log = Append(@, "initialize_write")]

handle_set_data(hd, data) ==
    [hd EXCEPT !.data = data, !.log = Append(@, "set_data")]

write_chunk(hd, start, end) ==
    [hd EXCEPT !.sink = [i \in 1..Len(@) |->
                           IF start < i /\ i <= end /\ i - start <= Len(hd.data)
                           THEN hd.data[i - start] ELSE @[i]],
               !.log = Append(@, "write_chunk")]

finalize_write(hd) ==
    [hd EXCEPT !.state = "FINALIZED", !.log = Append(@, "finalize_write")]

\* ------------------------------------------------ chunk iterator (RailStage)
\* variant: only full chunks are yielded, a shorter last one is dropped
HasNext_full_only == iterPos + chunk_size <= _input_length
\* the iterator has a further chunk to yield
HasNext == iterPos < _input_length
\* the (start, end) of the chunk it yields next
NextStart == iterPos
NextEnd == Min(iterPos + chunk_size, _input_length)

\* ------------------------------------------- per-chunk routine of a subclass
TomoBin(x) == x + 1
ClassId(data) == [i \in 1..Len(data) |-> TomoBin(data[i])]
Raises(data) == \E i \in 1..Len(data) : data[i] = Bad

\* -------------------------------------------------------- PZClassifier
\* The methods act on the stage's heap, passed as a record
\* st = [oh |-> _output_handle, hs |-> handles, tr |-> trace, err |-> raised]

\* variant: the handle is sized to the first chunk, not to the whole input
allocate_output_chunk_length(st, class_id) ==
    LET new == Len(st.hs) + 1
    IN  [st EXCEPT
           !.oh = new,
           !.hs = Append(@, initialize_write(NewHandle(class_id), Len(class_id), comm)),
           !.tr = @ \o <<Ev("add_handle", new, 0, 0, class_id, "-"),
                         Ev("initialize_write", new, Len(class_id), 0, <<>>, comm)>>]

\* _do_chunk_output, lines 163-164: add_handle('output') and initialize_write
allocate_output(st, class_id) ==
    LET new == Len(st.hs) + 1
    IN  [st EXCEPT
           !.oh = new,
           !.hs = Append(@, initialize_write(NewHandle(class_id), _input_length, comm)),
           !.tr = @ \o <<Ev("add_handle", new, 0, 0, class_id, "-"),
                         Ev("initialize_write", new, _input_length, 0, <<>>, comm)>>]

\* variant: write_chunk is issued before the buffer is replaced
record_chunk_write_first(st, class_id, start, end) ==
    IF st.oh = None
    THEN [st EXCEPT !.err = "AttributeError"]
    ELSE [st EXCEPT
            !.hs = [@ EXCEPT ![st.oh] = handle_set_data(write_chunk(@, start, end),
                                                        class_id)],
            !.tr = @ \o <<Ev("write_chunk", st.oh, start, end, <<>>, "-"),
                          Ev("set_data", st.oh, 0, 0, class_id, "-")>>]

\* _do_chunk_output, lines 165-166: set_data(partial=True) then write_chunk
record_chunk(st, class_id, start, end) ==
    IF st.oh = None
    THEN [st EXCEPT !.err = "AttributeError"]
    ELSE [st EXCEPT
            !.hs = [@ EXCEPT ![st.oh] = write_chunk(handle_set_data(@, class_id),
                                                    start, end)],
            !.tr = @ \o <<Ev("set_data", st.oh, 0, 0, class_id, "-"),
                          Ev("write_chunk", st.oh, start, end, <<>>, "-")>>]

\* variant: the handle is allocated on every chunk
_do_chunk_output_every_chunk(st, class_id, start, end, is_first) ==
    record_chunk(allocate_output(st, class_id), class_id, start, end)

\* variant: the chunk is written at the head of the sink, not at its range
_do_chunk_output_no_offset(st, class_id, start, end, is_first) ==
    record_chunk(IF is_first THEN allocate_output(st, class_id) ELSE st,
                 class_id, 0, end - start)

\* variant: a handle left by an earlier run is kept instead of replaced
_do_chunk_output_keep_handle(st, class_id, start, end, is_first) ==
    record_chunk(IF is_first /\ st.oh = None THEN allocate_output(st, class_id) ELSE st,
                 class_id, start, end)

\* _do_chunk_output(class_id, start, end, first), lines 161-166
_do_chunk_output(st, class_id, start, end, is_first) ==
    record_chunk(IF is_first THEN allocate_output(st, class_id) ELSE st,
                 class_id, start, end)

\* -------------------------------------------------------- CatClassifier
\* self.model = None / a slot nothing is bound to / no path
NoModel == [t |-> "None", v |-> "", path |-> ""]
Unbound == [t |-> "unbound", v |-> "", path |-> ""]

\* the values open_model can be given as model: the keyword absent, None,
\* a string (the marker 'None' or a file path), a ModelHandle with or
\* without a path, a trained object
RefAbsent == [t |-> "absent", v |-> "", path |-> ""]
RefNone == [t |-> "None", v |-> "", path |-> ""]
RefStr(str) == [t |-> "str", v |-> str, path |-> ""]
ModelRefs ==
    {RefAbsent, RefNone, RefStr("None"), RefStr("a.pkl"), RefStr("b.pkl"),
     [t |-> "ModelHandle", v |-> "objH", path |-> "h.pkl"],
     [t |-> "ModelHandle", v |-> "objG", path |-> ""],
     [t |-> "object", v |-> "objA", path |-> ""]}

\* RailStage.set_data('model', data, path): what the slot is bound to
SlotFor(data, path) ==
    IF path # "" THEN [t |-> "path", v |-> "", path |-> path]
    ELSE IF data.t = "ModelHandle" THEN data
    ELSE [t |-> "data", v |-> data.v, path |-> ""]

\* RailStage.set_data('model', data, path): the value it returns
DataFor(data, path) ==
    IF path # "" THEN [t |-> "path", v |-> "", path |-> path]
    ELSE [t |-> "data", v |-> data.v, path |-> data.path]

\* self.set_data('model', data, path) on the model state
\* ms = [model, config, slot, calls] of the stage; the result goes to self.model
set_model_data(ms, data, path) ==
    [ms EXCEPT !.model = DataFor(data, path),
               !.slot = SlotFor(data, path),
               !.calls = Append(@, [data |-> data, path |-> path])]

\* variant: the string 'None' is not taken as the no-model marker
open_model_marker_ignored(ms, kwargs) ==
    LET m == IF kwargs.t = "absent" THEN RefNone ELSE kwargs
    IN  IF m.t = "None"
        THEN [ms EXCEPT !.model = NoModel]
        ELSE IF m.t = "str"
        THEN [set_model_data(ms, RefNone, m.v) EXCEPT !.config = m.v]
        ELSE set_model_data(
                 [ms EXCEPT !.config = IF m.t = "ModelHandle" /\ m.path # ""
                                       THEN m.path ELSE @],
                 m, "")

\* variant: a string is handed on as the model itself, not as a path
open_model_string_as_data(ms, kwargs) ==
    LET m == IF kwargs.t = "absent" THEN RefNone ELSE kwargs
    IN  IF m.t = "None" \/ (m.t = "str" /\ m.v = "None")
        THEN [ms EXCEPT !.model = NoModel]
        ELSE set_model_data(
                 [ms EXCEPT !.config = IF m.t = "ModelHandle" /\ m.path # ""
                                       THEN m.path ELSE @],
                 m, "")

\* open_model(**kwargs), lines 52-64
open_model(ms, kwargs) ==
    LET m == IF kwargs.t = "absent" THEN RefNone ELSE kwargs
    IN  IF m.t = "None" \/ (m.t = "str" /\ m.v = "None")
        THEN [ms EXCEPT !.model = NoModel]
        ELSE IF m.t = "str"
        THEN [set_model_data(ms, RefNone, m.v) EXCEPT !.config = m.v]
        ELSE set_model_data(
                 [ms EXCEPT !.config = IF m.t = "ModelHandle" /\ m.path # ""
                                       THEN m.path ELSE @],
                 m, "")

\* the model state of a stage before open_model was ever called
FreshModel == [model |-> NoModel, config |-> "", slot |-> Unbound, calls |-> <<>>]
\* the model state of the stage as a record
ModelState == [model |-> model, config |-> config_model, slot |-> model_slot,
               calls |-> model_calls]

Init ==
    /\ name \in {"PZClassifier", "CatClassifier"}
    /\ \E kwargs \in ModelRefs :
          LET ms == IF name = "CatClassifier" THEN open_model(FreshModel, kwargs)
                    ELSE FreshModel
          IN  /\ model = ms.model
              /\ config_model = ms.config
              /\ model_slot = ms.slot
              /\ model_calls = ms.calls
              /\ last_open = IF name = "CatClassifier"
                             THEN [n |-> 1, ref |-> kwargs, result |-> ms.model]
                             ELSE [n |-> 0, ref |-> RefAbsent, result |-> NoModel]
    /\ cat_pc = "idle"
    /\ cat_trace = <<>>
    /\ cat_returned = "none"
    /\ procs = <<>>
    /\ hook \in {"base", "subclass"}
    /\ chunk_size \in 1..MaxChunkSize
    /\ comm \in {"None", "MPI"}
    /\ name = "CatClassifier" => (hook = "subclass" /\ chunk_size = 1 /\ comm = "None")
    /\ input = <<>>
    /\ pc = "idle"
    /\ first = TRUE
    /\ iterPos = 0
    /\ _input_length = NoLength
    /\ _output_handle = None
    /\ handles = <<>>
    /\ trace = <<>>
    /\ error = "none"
    /\ returned = None
    /\ runs = <<>>

\* the record kept of an invocation that has ended
Archive ==
    [input |-> input, trace |-> trace, pc |-> pc, error |-> error,
     returned |-> returned,
     sink |-> IF _output_handle = None THEN <<>> ELSE handles[_output_handle].sink]

\* classify(input_data), line 146: bind the input; run() is about to be called
classify(input_data) ==
    /\ name = "PZClassifier" /\ procs = <<>>
    \* the base class hook does not look at the rows: one input per length
    /\ hook = "base" => ~Raises(input_data)
    /\ UNCHANGED <<name, catvars, procs>>
    /\ \/ pc = "idle"
       \/ pc \in {"RETURNED", "ERROR"} /\ Len(runs) + 1 < MaxRuns
    /\ runs' = IF pc = "idle" THEN runs ELSE Append(runs, Archive)
    /\ input' = input_data
    /\ pc' = "NOT_STARTED"
    /\ trace' = <<Ev("set_input", None, Len(input_data), 0, <<>>, "-")>>
    /\ error' = "none"
    /\ returned' = None
    /\ UNCHANGED <<hook, chunk_size, comm, first, iterPos, _input_length,
                   _output_handle, handles>>

\* variant: the iterator of the earlier run is used again
run_start_stale_iterator ==
    /\ pc = "NOT_STARTED"
    /\ UNCHANGED <<name, catvars, procs>>
    /\ _input_length' = Len(input)
    /\ iterPos' = iterPos
    /\ first' = TRUE
    /\ pc' = "RUNNING"
    /\ trace' = Append(trace, Ev("input_iterator", None, Len(input), chunk_size, <<>>, "-"))
    /\ UNCHANGED <<hook, chunk_size, comm, input, _output_handle, handles,
                   error, returned, runs>>

\* run(), lines 170-173: fetch the input, open the iterator, first = True
run_start ==
    /\ pc = "NOT_STARTED"
    /\ UNCHANGED <<name, catvars, procs>>
    /\ _input_length' = Len(input)
    /\ iterPos' = 0
    /\ first' = TRUE
    /\ pc' = "RUNNING"
    /\ trace' = Append(trace, Ev("input_iterator", None, Len(input), chunk_size, <<>>, "-"))
    /\ UNCHANGED <<hook, chunk_size, comm, input, _output_handle, handles,
                   error, returned, runs>>

\* variant: the base class hook returns instead of raising
_process_chunk_pass(st, start, end, data, is_first) ==
    IF hook = "base"
    THEN st
    ELSE IF Raises(data)
         THEN [st EXCEPT !.err = "AlgorithmError"]
         ELSE _do_chunk_output(st, ClassId(data), start, end, is_first)

\* what _process_chunk(s, e, data, first) does: the base class raises, the
\* subclass classifies the chunk and hands the result to _do_chunk_output
_process_chunk(st, start, end, data, is_first) ==
    IF hook = "base"
    THEN [st EXCEPT !.err = "NotImplementedError"]
    ELSE IF Raises(data)
         THEN [st EXCEPT !.err = "AlgorithmError"]
         ELSE _do_chunk_output(st, ClassId(data), start, end, is_first)

\* variant: the loop catches what _process_chunk raises and goes on
run_chunk_swallow ==
    /\ pc = "RUNNING"
    /\ UNCHANGED <<name, catvars, procs>>
    /\ HasNext
    /\ LET s  == NextStart
           e  == NextEnd
           st == [oh |-> _output_handle, hs |-> handles, err |-> "none",
                  tr |-> trace \o <<Ev("next", None, s, e, <<>>, "-"),
                                    Ev("_process_chunk", None, s, e, <<>>,
                                       IF first THEN "first" ELSE "later")>>]
           r  == _process_chunk(st, s, e, Slice(input, s, e), first)
       IN  /\ iterPos' = e
           /\ _output_handle' = r.oh
           /\ handles' = r.hs
           /\ IF r.err = "none"
              THEN /\ first' = FALSE
                   /\ trace' = Append(r.tr, Ev("gc", None, 0, 0, <<>>, "-"))
                   /\ pc' = "RUNNING"
                   /\ error' = error
              ELSE /\ first' = first
                   /\ trace' = r.tr
                   /\ pc' = "RUNNING"
                   /\ error' = error
    /\ UNCHANGED <<hook, chunk_size, comm, input, _input_length, returned, runs>>

\* variant: the flag first is never cleared
run_chunk_keep_first ==
    /\ pc = "RUNNING"
    /\ UNCHANGED <<name, catvars, procs>>
    /\ HasNext
    /\ LET s  == NextStart
           e  == NextEnd
           st == [oh |-> _output_handle, hs |-> handles, err |-> "none",
                  tr |-> trace \o <<Ev("next", None, s, e, <<>>, "-"),
                                    Ev("_process_chunk", None, s, e, <<>>,
                                       IF first THEN "first" ELSE "later")>>]
           r  == _process_chunk(st, s, e, Slice(input, s, e), first)
       IN  /\ iterPos' = e
           /\ _output_handle' = r.oh
           /\ handles' = r.hs
           /\ IF r.err = "none"
              THEN /\ first' = first
                   /\ trace' = Append(r.tr, Ev("gc", None, 0, 0, <<>>, "-"))
                   /\ pc' = "RUNNING"
                   /\ error' = error
              ELSE /\ first' = first
                   /\ trace' = r.tr
                   /\ pc' = "ERROR"
                   /\ error' = r.err
    /\ UNCHANGED <<hook, chunk_size, comm, input, _input_length, returned, runs>>

\* variant: no collection pass after a chunk
run_chunk_no_gc ==
    /\ pc = "RUNNING"
    /\ UNCHANGED <<name, catvars, procs>>
    /\ HasNext
    /\ LET s  == NextStart
           e  == NextEnd
           st == [oh |-> _output_handle, hs |-> handles, err |-> "none",
                  tr |-> trace \o <<Ev("next", None, s, e, <<>>, "-"),
                                    Ev("_process_chunk", None, s, e, <<>>,
                                       IF first THEN "first" ELSE "later")>>]
           r  == _process_chunk(st, s, e, Slice(input, s, e), first)
       IN  /\ iterPos' = e
           /\ _output_handle' = r.oh
           /\ handles' = r.hs
           /\ IF r.err = "none"
              THEN /\ first' = FALSE
                   /\ trace' = r.tr
                   /\ pc' = "RUNNING"
                   /\ error' = error
              ELSE /\ first' = first
                   /\ trace' = r.tr
                   /\ pc' = "ERROR"
                   /\ error' = r.err
    /\ UNCHANGED <<hook, chunk_size, comm, input, _input_length, returned, runs>>

\* run(), lines 175-181: one turn of the loop
run_chunk ==
    /\ pc = "RUNNING"
    /\ UNCHANGED <<name, catvars, procs>>
    /\ HasNext
    /\ LET s  == NextStart
           e  == NextEnd
           st == [oh |-> _output_handle, hs |-> handles, err |-> "none",
                  tr |-> trace \o <<Ev("next", None, s, e, <<>>, "-"),
                                    Ev("_process_chunk", None, s, e, <<>>,
                                       IF first THEN "first" ELSE "later")>>]
           r  == _process_chunk(st, s, e, Slice(input, s, e), first)
       IN  /\ iterPos' = e
           /\ _output_handle' = r.oh
           /\ handles' = r.hs
           /\ IF r.err = "none"
              THEN /\ first' = FALSE
                   /\ trace' = Append(r.tr, Ev("gc", None, 0, 0, <<>>, "-"))
                   /\ pc' = "RUNNING"
                   /\ error' = error
              ELSE /\ first' = first
                   /\ trace' = r.tr
                   /\ pc' = "ERROR"
                   /\ error' = r.err
    /\ UNCHANGED <<hook, chunk_size, comm, input, _input_length, returned, runs>>

\* run(), line 175: the iterator is exhausted, the loop ends
run_exhausted ==
    /\ pc = "RUNNING"
    /\ UNCHANGED <<name, catvars, procs>>
    /\ ~HasNext
    /\ pc' = "FINALIZING"
    /\ UNCHANGED <<hook, chunk_size, comm, input, first, iterPos, _input_length,
                   _output_handle, handles, trace, error, returned, runs>>

\* variant: the run ends without finalize_write
_finalize_run_skipped ==
    /\ pc = "FINALIZING"
    /\ UNCHANGED <<name, catvars, procs>>
    /\ pc' = "DONE"
    /\ UNCHANGED <<hook, chunk_size, comm, input, first, iterPos, _input_length,
                   _output_handle, handles, trace, error, returned, runs>>

\* _finalize_run(), line 154, called by run() at line 182
_finalize_run ==
    /\ pc = "FINALIZING"
    /\ UNCHANGED <<name, catvars, procs>>
    /\ IF _output_handle = None
       THEN /\ pc' = "ERROR"
            /\ error' = "AttributeError"
            /\ UNCHANGED <<handles, trace>>
       ELSE /\ handles' = [handles EXCEPT ![_output_handle] = finalize_write(@)]
            /\ trace' = Append(trace, Ev("finalize_write", _output_handle, 0, 0, <<>>, "-"))
            /\ pc' = "DONE"
            /\ UNCHANGED error
    /\ UNCHANGED <<hook, chunk_size, comm, input, first, iterPos, _input_length,
                   _output_handle, returned, runs>>

\* variant: the handle is returned without finalize() having been called
classify_return_unfinalized ==
    /\ pc = "DONE"
    /\ UNCHANGED <<name, catvars, procs>>
    /\ returned' = _output_handle
    /\ pc' = "RETURNED"
    /\ trace' = Append(trace, Ev("return", _output_handle, 0, 0, <<>>, "-"))
    /\ UNCHANGED <<hook, chunk_size, comm, input, first, iterPos, _input_length,
                   _output_handle, handles, error, runs>>

\* classify(), lines 148-149: finalize() and return get_handle('output')
classify_return ==
    /\ pc = "DONE"
    /\ UNCHANGED <<name, catvars, procs>>
    /\ returned' = _output_handle
    /\ pc' = "RETURNED"
    /\ trace' = trace \o <<Ev("finalize", None, 0, 0, <<>>, "-"),
                          Ev("return", _output_handle, 0, 0, <<>>, "-")>>
    /\ UNCHANGED <<hook, chunk_size, comm, input, first, iterPos, _input_length,
                   _output_handle, handles, error, runs>>

\* CatClassifier.open_model(**kwargs) called on the constructed stage
cat_open_model(kwargs) ==
    /\ name = "CatClassifier"
    /\ cat_pc = "idle"
    /\ last_open.n < MaxOpens
    /\ LET ms == open_model(ModelState, kwargs)
       IN  /\ model' = ms.model
           /\ config_model' = ms.config
           /\ model_slot' = ms.slot
           /\ model_calls' = ms.calls
           /\ last_open' = [n |-> last_open.n + 1, ref |-> kwargs, result |-> ms.model]
    /\ UNCHANGED <<hook, chunk_size, comm, input, pc, first, iterPos, _input_length,
                   _output_handle, handles, trace, error, returned, runs, name,
                   cat_pc, cat_trace, cat_returned, procs>>

\* CatClassifier.classify(input_data), line 92: bind the input
cat_classify(input_data) ==
    /\ name = "CatClassifier"
    /\ cat_pc = "idle"
    /\ input' = input_data
    /\ cat_pc' = "NOT_STARTED"
    /\ cat_trace' = <<"set_input">>
    /\ UNCHANGED <<hook, chunk_size, comm, pc, first, iterPos, _input_length,
                   _output_handle, handles, trace, error, returned, runs, name,
                   model, config_model, model_slot, model_calls, last_open,
                   cat_returned, procs>>

\* CatClassifier.classify, line 93: run() of the subclass returns or raises
cat_run ==
    /\ name = "CatClassifier"
    /\ cat_pc = "NOT_STARTED"
    /\ cat_trace' = Append(cat_trace, "run")
    /\ \E raised \in BOOLEAN : cat_pc' = IF raised THEN "ERROR" ELSE "DONE"
    /\ UNCHANGED <<hook, chunk_size, comm, input, pc, first, iterPos, _input_length,
                   _output_handle, handles, trace, error, returned, runs, name,
                   model, config_model, model_slot, model_calls, last_open,
                   cat_returned, procs>>

\* CatClassifier.classify, lines 94-95: finalize() and return get_handle('output')
cat_classify_return ==
    /\ name = "CatClassifier"
    /\ cat_pc = "DONE"
    /\ cat_trace' = cat_trace \o <<"finalize", "return">>
    /\ cat_returned' = "output"
    /\ cat_pc' = "RETURNED"
    /\ UNCHANGED <<hook, chunk_size, comm, input, pc, first, iterPos, _input_length,
                   _output_handle, handles, trace, error, returned, runs, name,
                   model, config_model, model_slot, model_calls, last_open, procs>>

\* ------------------------------------------------------ parallel run
\* The iterator of the process of rank r in a run of P processes yields the
\* chunks number r, r + P, r + 2P, ... of [0, L); pr.k is the number of the
\* chunk it yields next.
ProcHasNext(pr) == pr.k * chunk_size < _input_length
ProcStart(pr) == pr.k * chunk_size
ProcEnd(pr) == Min(pr.k * chunk_size + chunk_size, _input_length)

\* classify(input_data) called in each of P cooperating processes with the
\* same input and communicator, lines 146 and 170-173
parallel_classify(input_data, P) ==
    /\ name = "PZClassifier" /\ pc = "idle" /\ procs = <<>>
    /\ comm = "MPI"
    /\ input' = input_data
    /\ _input_length' = Len(input_data)
    /\ procs' = [r \in 1..P |->
                   [pc |-> "RUNNING", first |-> TRUE, k |-> r - 1, oh |-> None,
                    hs |-> <<>>, err |-> "none",
                    tr |-> <<Ev("set_input", None, Len(input_data), 0, <<>>, "-"),
                             Ev("input_iterator", None, Len(input_data), chunk_size,
                                <<>>, "-")>>]]
    /\ UNCHANGED <<hook, chunk_size, comm, pc, first, iterPos, _output_handle,
                   handles, trace, error, returned, runs, name, catvars>>

\* run(), lines 175-181, in the process of rank r - 1
parallel_run_chunk(r) ==
    /\ procs[r].pc = "RUNNING"
    /\ ProcHasNext(procs[r])
    /\ LET pr == procs[r]
           s  == ProcStart(pr)
           e  == ProcEnd(pr)
           st == [oh |-> pr.oh, hs |-> pr.hs, err |-> "none",
                  tr |-> pr.tr \o <<Ev("next", None, s, e, <<>>, "-"),
                                    Ev("_process_chunk", None, s, e, <<>>,
                                       IF pr.first THEN "first" ELSE "later")>>]
           res == _process_chunk(st, s, e, Slice(input, s, e), pr.first)
       IN  procs' = [procs EXCEPT ![r] =
                        IF res.err = "none"
                        THEN [pr EXCEPT !.k = @ + Len(procs), !.oh = res.oh, !.hs = res.hs,
                                        !.first = FALSE,
                                        !.tr = Append(res.tr, Ev("gc", None, 0, 0, <<>>, "-"))]
                        ELSE [pr EXCEPT !.k = @ + Len(procs), !.oh = res.oh, !.hs = res.hs,
                                        !.tr = res.tr, !.pc = "ERROR", !.err = res.err]]
    /\ UNCHANGED <<hook, chunk_size, comm, input, pc, first, iterPos, _input_length,
                   _output_handle, handles, trace, error, returned, runs, name, catvars>>

\* run(), line 175 and _finalize_run(), line 154, in the process of rank r - 1
parallel_finalize_run(r) ==
    /\ procs[r].pc = "RUNNING"
    /\ ~ProcHasNext(procs[r])
    /\ LET pr == procs[r]
       IN  procs' = [procs EXCEPT ![r] =
                        IF pr.oh = None
                        THEN [pr EXCEPT !.pc = "ERROR", !.err = "AttributeError"]
                        ELSE [pr EXCEPT !.pc = "DONE",
                                        !.hs = [@ EXCEPT ![pr.oh] = finalize_write(@)],
                                        !.tr = Append(@, Ev("finalize_write", pr.oh, 0, 0,
                                                            <<>>, "-"))]]
    /\ UNCHANGED <<hook, chunk_size, comm, input, pc, first, iterPos, _input_length,
                   _output_handle, handles, trace, error, returned, runs, name, catvars>>

Next ==
    \/ \E input_data \in Inputs : classify(input_data)
    \/ run_start
    \/ run_chunk
    \/ run_exhausted
    \/ _finalize_run
    \/ classify_return
    \/ \E kwargs \in ModelRefs : cat_open_model(kwargs)
    \/ \E input_data \in {MakeInput(L, 0) : L \in 0..MaxLen} : cat_classify(input_data)
    \/ cat_run
    \/ cat_classify_return
    \/ \E input_data \in Inputs, P \in 2..MaxProcs : parallel_classify(input_data, P)
    \/ \E r \in 1..Len(procs) : parallel_run_chunk(r)
    \/ \E r \in 1..Len(procs) : parallel_finalize_run(r)

Spec == Init /\ [][Next]_vars

TypeOK ==
    /\ pc \in {"idle", "NOT_STARTED", "RUNNING", "FINALIZING", "DONE", "RETURNED", "ERROR"}
    /\ error \in {"none", "NotImplementedError", "AlgorithmError", "AttributeError"}
    /\ _output_handle \in 0..Len(handles)
    /\ iterPos \in 0..MaxLen

\* ------------------------------------------------- reading the call trace
\* the calls of one kind, in the order they were made
Calls(tr, op) == SelectSeq(tr, LAMBDA ev : ev.op = op)
Count(tr, op) == Len(Calls(tr, op))
\* the (start, end) arguments of the calls of one kind
Ranges(tr, op) == [i \in 1..Count(tr, op) |-> <<Calls(tr, op)[i].a, Calls(tr, op)[i].b>>]
\* position in the trace of the n-th call of a kind (0 if there is none)
Pos(tr, op, n) ==
    IF Count(tr, op) < n THEN 0
    ELSE CHOOSE p \in 1..Len(tr) :
            tr[p].op = op /\ Count(SubSeq(tr, 1, p), op) = n
IsPrefix(s, t) == Len(s) <= Len(t) /\ \A i \in 1..Len(s) : s[i] = t[i]
\* the invocation has started run()
InRun == pc \in {"RUNNING", "FINALIZING", "DONE", "RETURNED", "ERROR"}
\* run() returned without raising
Completed == pc \in {"DONE", "RETURNED"}

\* C1: in a run of a subclass that records through _do_chunk_output,
\* initialize_write is called at most once; as soon as a chunk has been
\* recorded it has been called exactly once, during the first chunk (after
\* the first chunk was yielded, before a second one is) and before every
\* set_data and write_chunk; a completed run over L >= 1 rows has exactly one.
C1_InitializeOnce ==
    (hook = "subclass" /\ InRun) =>
        /\ Count(trace, "initialize_write") <= 1
        /\ (Count(trace, "set_data") + Count(trace, "write_chunk") >= 1) =>
              /\ Count(trace, "initialize_write") = 1
              /\ Pos(trace, "next", 1) < Pos(trace, "initialize_write", 1)
              /\ Pos(trace, "initialize_write", 1) < Pos(trace, "set_data", 1)
              /\ Pos(trace, "initialize_write", 1) < Pos(trace, "write_chunk", 1)
              /\ Count(trace, "next") >= 2 =>
                    Pos(trace, "initialize_write", 1) < Pos(trace, "next", 2)
        /\ (Completed /\ Len(input) >= 1) => Count(trace, "initialize_write") = 1

C1_Witness ==
    /\ hook = "subclass" /\ pc = "DONE"
    /\ Len(input) = 5 /\ chunk_size = 2
    /\ Count(trace, "write_chunk") = 3
    /\ Count(trace, "initialize_write") = 1

\* C2: a run that returns has called finalize_write exactly once, as its
\* last call to the handle and after every write_chunk; a run that is still
\* looping has not called it.
C2_FinalizeOnceLast ==
    /\ Completed =>
          /\ Count(trace, "finalize_write") = 1
          /\ \A p \in 1..Len(trace) :
                trace[p].op \in {"write_chunk", "set_data", "initialize_write", "next"}
                    => p < Pos(trace, "finalize_write", 1)
    /\ pc \in {"NOT_STARTED", "RUNNING", "FINALIZING"} =>
          Count(trace, "finalize_write") = 0

C2_Witness ==
    /\ pc = "DONE"
    /\ Count(trace, "write_chunk") = 1
    /\ Count(trace, "finalize_write") = 1
    /\ trace[Len(trace)].op = "finalize_write"

\* C3: the ranges the loop receives are 0, C, 2C, ... with end =
\* min(start + C, L): ascending, adjacent, non-empty, at most C long; when
\* the loop has ended normally they cover [0, L) and the iterator was
\* opened once.
C3_ChunksPartition ==
    InRun =>
        LET ch == Ranges(trace, "next")
            L  == Len(input)
        IN  /\ \A i \in 1..Len(ch) :
                  /\ ch[i][1] = (i - 1) * chunk_size
                  /\ ch[i][2] = Min(ch[i][1] + chunk_size, L)
                  /\ ch[i][1] < ch[i][2]
                  /\ ch[i][2] - ch[i][1] <= chunk_size
                  /\ i > 1 => ch[i][1] = ch[i - 1][2]
            /\ Count(trace, "input_iterator") = 1
            /\ (pc \in {"FINALIZING", "DONE", "RETURNED"} \/ error = "AttributeError") =>
                  IF L = 0 THEN Len(ch) = 0
                  ELSE Len(ch) >= 1 /\ ch[Len(ch)][2] = L

C3_Witness ==
    /\ pc = "FINALIZING"
    /\ Len(input) = 5 /\ chunk_size = 2
    /\ Ranges(trace, "next") = << <<0, 2>>, <<2, 4>>, <<4, 5>> >>

\* C4: the write_chunk calls of a run are, in order, the ranges the iterator
\* yielded: a prefix of them while the run is under way, all of them once
\* the run has returned.
C4_WritesFollowChunks ==
    (hook = "subclass" /\ InRun) =>
        /\ IsPrefix(Ranges(trace, "write_chunk"), Ranges(trace, "next"))
        /\ Completed => Ranges(trace, "write_chunk") = Ranges(trace, "next")

C4_Witness ==
    /\ pc = "DONE"
    /\ Len(input) = 5 /\ chunk_size = 2
    /\ Ranges(trace, "write_chunk") = << <<0, 2>>, <<2, 4>>, <<4, 5>> >>
    /\ Count(trace, "finalize_write") = 1

\* C5 (as claimed): a run over an empty input creates and initializes no
\* handle, calls no finalize_write, and does not raise.
C5_EmptyRunCompletes ==
    (InRun /\ Len(input) = 0) =>
        /\ Count(trace, "add_handle") = 0
        /\ Count(trace, "initialize_write") = 0
        /\ Count(trace, "finalize_write") = 0
        /\ pc # "ERROR"

\* C6 (as claimed): once the loop of the unmodified base stage has been
\* entered, on any input, the run has failed with NotImplementedError.
C6_BaseAlwaysNotImplemented ==
    (hook = "base" /\ pc \in {"FINALIZING", "DONE", "RETURNED", "ERROR"}) =>
        /\ pc = "ERROR"
        /\ error = "NotImplementedError"

\* C6 (amended): the unmodified base stage never creates or touches an
\* output handle; on an input of at least one row its run fails on the first
\* chunk with NotImplementedError, no later chunk being requested.
C6_BaseFailsOnFirstChunk ==
    hook = "base" =>
        /\ handles = <<>> /\ _output_handle = None
        /\ Count(trace, "add_handle") + Count(trace, "initialize_write")
             + Count(trace, "set_data") + Count(trace, "write_chunk") = 0
        /\ (Len(input) >= 1 /\ pc \in {"FINALIZING", "DONE", "RETURNED", "ERROR"}) =>
              /\ pc = "ERROR"
              /\ error = "NotImplementedError"
              /\ Count(trace, "next") = 1
              /\ trace[Len(trace)].op = "_process_chunk"

C6_Witness ==
    /\ hook = "base" /\ pc = "ERROR" /\ error = "NotImplementedError"
    /\ Len(input) = 3 /\ chunk_size = 1
    /\ Count(trace, "next") = 1

\* the rows [0, n) of the sink of handle h hold the classes of those input
\* rows and the rows from n on are untouched
SinkHoldsPrefix(h, n) ==
    /\ Len(handles[h].sink) = Len(input)
    /\ \A i \in 1..Len(input) :
          handles[h].sink[i] = IF i <= n THEN TomoBin(input[i]) ELSE Empty

\* C7: when _process_chunk raises on chunk k the run ends there with that
\* error: the failing call is the last thing the run did, no further chunk
\* was requested, finalize_write was not called, and the first k chunks stay
\* written in a handle that is still open.  A run ends either returned, with
\* every chunk written and the handle finalized, or in error without
\* finalize_write.
C7_FailurePropagates ==
    /\ (pc = "ERROR" /\ error \in {"NotImplementedError", "AlgorithmError"}) =>
          LET k == Count(trace, "next") - 1
          IN  /\ k >= 0
              /\ error = (IF hook = "base" THEN "NotImplementedError" ELSE "AlgorithmError")
              /\ trace[Len(trace)].op = "_process_chunk"
              /\ Count(trace, "gc") = k
              /\ Count(trace, "finalize_write") = 0
              /\ Ranges(trace, "write_chunk") = SubSeq(Ranges(trace, "next"), 1, k)
              /\ Count(trace, "add_handle") = (IF k >= 1 /\ hook = "subclass" THEN 1 ELSE 0)
              /\ Count(trace, "add_handle") = 1 =>
                    /\ handles[_output_handle].state = "WRITING"
                    /\ SinkHoldsPrefix(_output_handle, Ranges(trace, "next")[k + 1][1])
    /\ Completed =>
          /\ error = "none"
          /\ Ranges(trace, "write_chunk") = Ranges(trace, "next")
          /\ handles[_output_handle].state = "FINALIZED"
          /\ Count(trace, "add_handle") = 1 => SinkHoldsPrefix(_output_handle, Len(input))
    /\ pc = "ERROR" => (error # "none" /\ Count(trace, "finalize_write") = 0)

C7_Witness ==
    /\ pc = "ERROR" /\ error = "AlgorithmError"
    /\ Len(input) = 5 /\ chunk_size = 2 /\ input[5] = Bad
    /\ Count(trace, "write_chunk") = 2
    /\ handles[_output_handle].state = "WRITING"

\* C8: no handle exists until a first chunk is recorded; every handle's
\* calls are one initialize_write, then set_data/write_chunk pairs, then
\* finalize_write, and nothing is recorded on it after finalize_write.
C8_HandleLifecycle ==
    /\ (_output_handle = None) <=> (handles = <<>>)
    /\ handles = <<>> =>
          /\ Count(trace, "set_data") + Count(trace, "write_chunk") = 0
          /\ \A r \in 1..Len(runs) :
                Count(runs[r].trace, "set_data") + Count(runs[r].trace, "write_chunk") = 0
    /\ \A h \in 1..Len(handles) :
          LET log == handles[h].log
          IN  /\ Len(log) >= 1 /\ log[1] = "initialize_write"
              /\ \A i \in 2..Len(log) : log[i] # "initialize_write"
              /\ \A i, j \in 1..Len(log) :
                    (i < j /\ log[i] = "finalize_write") =>
                        log[j] \notin {"set_data", "write_chunk"}
              /\ handles[h].state =
                    (IF \E i \in 1..Len(log) : log[i] = "finalize_write"
                     THEN "FINALIZED" ELSE "WRITING")

C8_Witness ==
    /\ Len(handles) = 2
    /\ handles[1].state = "FINALIZED"
    /\ handles[2].state = "WRITING"
    /\ Len(SelectSeq(handles[2].log, LAMBDA c : c = "write_chunk")) = 2
    /\ _output_handle = 2

\* the per-chunk routine does not raise on the bound input
NoRaise == hook = "subclass" /\ ~Raises(input)

\* C9 (as claimed): an invocation only moves forward through NOT_STARTED,
\* RUNNING, FINALIZING, DONE, and with a routine that does not raise it does
\* not end in an error.
C9_ReachesDone ==
    [][ /\ pc = "NOT_STARTED" => pc' \in {"NOT_STARTED", "RUNNING"}
        /\ pc = "RUNNING" => pc' \in {"RUNNING", "FINALIZING", "ERROR"}
        /\ pc = "FINALIZING" => pc' \in {"FINALIZING", "DONE", "ERROR"}
        /\ pc = "DONE" => pc' \in {"DONE", "RETURNED"}
        /\ (NoRaise /\ pc \in {"NOT_STARTED", "RUNNING", "FINALIZING"}) => pc' # "ERROR"
      ]_vars

\* the calls of a trace without the identity of the handle they went to
Anonymous(tr) == [i \in 1..Len(tr) |-> [tr[i] EXCEPT !.h = IF @ = None THEN 0 ELSE 1]]

\* C10: an invocation that has ended and whose input is that of the
\* invocation before it made the same calls with the same arguments, ended
\* the same way and left the same contents in its sink.
C10_RerunIdentical ==
    (Len(runs) >= 1 /\ pc \in {"RETURNED", "ERROR"} /\ runs[Len(runs)].input = input) =>
        LET before == runs[Len(runs)]
        IN  /\ Anonymous(trace) = Anonymous(before.trace)
            /\ pc = before.pc
            /\ error = before.error
            /\ (returned = None) <=> (before.returned = None)
            /\ Archive.sink = before.sink

C10_Witness ==
    /\ Len(runs) = 1 /\ pc = "RETURNED"
    /\ runs[1].input = input /\ Len(input) = 5 /\ chunk_size = 2
    /\ runs[1].returned = 1 /\ returned = 2
    /\ handles[2].sink = handles[1].sink

\* C11: every initialize_write of a run is given the full input length and
\* the communicator of the stage, and the handle keeps both.
C11_InitializeFullLength ==
    InRun =>
        \A p \in 1..Len(trace) :
            trace[p].op = "initialize_write" =>
                /\ trace[p].a = Len(input)
                /\ trace[p].c = comm
                /\ handles[trace[p].h].total_length = Len(input)
                /\ handles[trace[p].h].comm = comm
                /\ Len(handles[trace[p].h].sink) = Len(input)

C11_Witness ==
    /\ pc = "RUNNING" /\ comm = "MPI"
    /\ Len(input) = 5 /\ chunk_size = 2
    /\ Count(trace, "next") = 1
    /\ Count(trace, "initialize_write") = 1
    /\ handles[_output_handle].total_length = 5
    /\ handles[_output_handle].comm = "MPI"

\* C15: the n-th _process_chunk call of a run gets first = True exactly
\* when n = 1, and the flag of the loop is True exactly as long as no chunk
\* of the run has been processed successfully.
C15_FirstFlag ==
    InRun =>
        /\ \A n \in 1..Count(trace, "_process_chunk") :
              Calls(trace, "_process_chunk")[n].c = (IF n = 1 THEN "first" ELSE "later")
        /\ first = (Count(trace, "gc") = 0)

C15_Witness ==
    /\ pc = "RUNNING" /\ first = FALSE
    /\ Count(trace, "_process_chunk") = 2
    /\ Calls(trace, "_process_chunk")[1].c = "first"
    /\ Calls(trace, "_process_chunk")[2].c = "later"

\* C16: there is one collection pass per successfully processed chunk; the
\* n-th pass comes after the n-th chunk was yielded (and written) and before
\* the next chunk is yielded; the last one comes before finalize_write.
C16_GcAfterEveryChunk ==
    InRun =>
        LET failed == IF pc = "ERROR" /\ error # "AttributeError" THEN 1 ELSE 0
        IN  /\ Count(trace, "gc") = Count(trace, "next") - failed
            /\ \A n \in 1..Count(trace, "gc") :
                  /\ Pos(trace, "next", n) < Pos(trace, "gc", n)
                  /\ hook = "subclass" => Pos(trace, "write_chunk", n) < Pos(trace, "gc", n)
                  /\ n < Count(trace, "next") =>
                        Pos(trace, "gc", n) < Pos(trace, "next", n + 1)
            /\ (Completed /\ Count(trace, "gc") >= 1) =>
                  Pos(trace, "gc", Count(trace, "gc")) < Pos(trace, "finalize_write", 1)

C16_Witness ==
    /\ pc = "DONE"
    /\ Count(trace, "next") = 3
    /\ Count(trace, "gc") = 3
    /\ trace[Len(trace) - 1].op = "gc"

\* C17: every write_chunk(start, end) directly follows the set_data, on the
\* same handle, of the classes of the input rows [start, end); the rows a run
\* has written hold the classes of the same input rows.
C17_BufferBeforeWrite ==
    (hook = "subclass" /\ InRun) =>
        /\ \A p \in 1..Len(trace) :
              trace[p].op = "write_chunk" =>
                  /\ p > 1
                  /\ trace[p - 1].op = "set_data"
                  /\ trace[p - 1].h = trace[p].h
                  /\ trace[p - 1].d = ClassId(Slice(input, trace[p].a, trace[p].b))
                  /\ \A i \in (trace[p].a + 1)..trace[p].b :
                        handles[trace[p].h].sink[i] = TomoBin(input[i])
        /\ \A h \in 1..Len(handles) :
              \A i \in 1..Len(handles[h].log) :
                  handles[h].log[i] = "write_chunk" =>
                      (i > 1 /\ handles[h].log[i - 1] = "set_data")

C17_Witness ==
    /\ hook = "subclass" /\ pc = "RUNNING"
    /\ Count(trace, "write_chunk") = 2
    /\ Calls(trace, "set_data")[1].d # Calls(trace, "set_data")[2].d
    /\ handles[_output_handle].data = Calls(trace, "set_data")[2].d

\* C19 (as claimed): no handle is finalized more than once, and a run that
\* calls finalize_write calls it on a handle it allocated itself.
C19_FinalizeAtMostOncePerHandle ==
    /\ \A h \in 1..Len(handles) :
          Len(SelectSeq(handles[h].log, LAMBDA c : c = "finalize_write")) <= 1
    /\ (InRun /\ Count(trace, "finalize_write") >= 1) =>
          Count(trace, "add_handle") = 1

\* C20: the ranges a run has passed to write_chunk are adjacent and start at
\* row 0, so the rows written so far are exactly [0, e) for e the end of the
\* last write (0 if none): in the sink of the run's handle the rows below e
\* are written and the rows from e on are not.
C20_WrittenRowsArePrefix ==
    InRun =>
        LET w == Ranges(trace, "write_chunk")
            e == IF Len(w) = 0 THEN 0 ELSE w[Len(w)][2]
        IN  /\ \A i \in 1..Len(w) :
                  /\ w[i][1] = (IF i = 1 THEN 0 ELSE w[i - 1][2])
                  /\ w[i][1] < w[i][2]
            /\ Count(trace, "add_handle") = 1 =>
                  \A i \in 1..Len(handles[_output_handle].sink) :
                      (handles[_output_handle].sink[i] # Empty) <=> (i <= e)

C20_Witness ==
    /\ pc = "ERROR" /\ error = "AlgorithmError"
    /\ Len(input) = 4 /\ chunk_size = 1 /\ input[4] = Bad
    /\ Ranges(trace, "write_chunk") = << <<0, 1>>, <<1, 2>>, <<2, 3>> >>
    /\ handles[_output_handle].sink[4] = Empty

\* C12: in both classes classify binds the input first, then runs, then
\* finalizes, and returns the output handle last; nothing is returned while
\* the run is under way or when it raised.
C12_ClassifyProtocol ==
    /\ (returned # None) => pc = "RETURNED"
    /\ pc \in {"NOT_STARTED", "RUNNING", "FINALIZING", "DONE", "ERROR"} =>
          /\ returned = None
          /\ Count(trace, "return") = 0 /\ Count(trace, "finalize") = 0
          /\ trace[1].op = "set_input" /\ trace[1].a = Len(input)
          /\ InRun => trace[2].op = "input_iterator"
    /\ pc = "RETURNED" =>
          /\ returned = _output_handle /\ returned # None
          /\ trace[1].op = "set_input"
          /\ trace[2].op = "input_iterator"
          /\ trace[Len(trace) - 2].op = "finalize_write"
          /\ trace[Len(trace) - 1].op = "finalize"
          /\ trace[Len(trace)].op = "return" /\ trace[Len(trace)].h = _output_handle
          /\ Count(trace, "set_input") = 1 /\ Count(trace, "return") = 1
    /\ (cat_returned # "none") => cat_pc = "RETURNED"
    /\ cat_pc = "NOT_STARTED" => cat_trace = <<"set_input">>
    /\ cat_pc \in {"DONE", "ERROR"} => cat_trace = <<"set_input", "run">>
    /\ cat_pc = "RETURNED" =>
          /\ cat_trace = <<"set_input", "run", "finalize", "return">>
          /\ cat_returned = "output"

C12_Witness ==
    /\ name = "CatClassifier"
    /\ cat_pc = "RETURNED" /\ cat_returned = "output"
    /\ Len(input) = 3
    /\ cat_trace[Len(cat_trace)] = "return"

\* open_model was given no model: keyword absent, None, or the marker 'None'
NoModelRef(ref) == ref.t \in {"absent", "None"} \/ (ref.t = "str" /\ ref.v = "None")
\* open_model was given a file path
PathRef(ref) == ref.t = "str" /\ ref.v # "None"
\* the step is a call of open_model
OpenModelStep == last_open'.n = last_open.n + 1

\* C13: open_model without a model returns None and leaves self.model None,
\* makes no set_data('model') call, and changes neither the recorded
\* configuration entry nor what the 'model' slot is bound to; so also for
\* the call made by the constructor.
C13_NoModelIsNoOp ==
    /\ (name = "CatClassifier" /\ NoModelRef(last_open.ref)) =>
          /\ model = NoModel /\ last_open.result = NoModel
          /\ model_calls = <<>> /\ config_model = "" /\ model_slot = Unbound
    /\ [][ (OpenModelStep /\ NoModelRef(last_open'.ref)) =>
              /\ model' = NoModel /\ last_open'.result = NoModel
              /\ model_calls' = model_calls
              /\ config_model' = config_model
              /\ model_slot' = model_slot ]_vars

C13_Witness ==
    /\ name = "CatClassifier" /\ last_open.n = 2
    /\ last_open.ref = RefStr("None")
    /\ model = NoModel /\ last_open.result = NoModel
    /\ config_model = "a.pkl" /\ Len(model_calls) = 1

\* C14: open_model with a file path makes one set_data('model', None, path)
\* call, so that the slot and self.model are backed by that path with no
\* data in memory, records exactly that string in the configuration, and
\* changes nothing else of the stage; so also for the call made by the
\* constructor.
C14_PathModel ==
    /\ (name = "CatClassifier" /\ PathRef(last_open.ref) /\ last_open.n = 1) =>
          /\ model = [t |-> "path", v |-> "", path |-> last_open.ref.v]
          /\ model_slot = [t |-> "path", v |-> "", path |-> last_open.ref.v]
          /\ config_model = last_open.ref.v
          /\ model_calls = <<[data |-> RefNone, path |-> last_open.ref.v]>>
    /\ [][ (OpenModelStep /\ PathRef(last_open'.ref)) =>
              /\ model' = [t |-> "path", v |-> "", path |-> last_open'.ref.v]
              /\ last_open'.result = model'
              /\ model_slot' = [t |-> "path", v |-> "", path |-> last_open'.ref.v]
              /\ config_model' = last_open'.ref.v
              /\ model_calls' = Append(model_calls,
                                       [data |-> RefNone, path |-> last_open'.ref.v])
              /\ UNCHANGED <<input, _output_handle, handles, cat_pc, cat_returned>> ]_vars

C14_Witness ==
    /\ name = "CatClassifier" /\ last_open.n = 2
    /\ last_open.ref = RefStr("b.pkl")
    /\ config_model = "b.pkl" /\ model.t = "path" /\ model.path = "b.pkl"
    /\ model_slot.path = "b.pkl"
    /\ Len(model_calls) = 2 /\ model_calls[1].path = "a.pkl"

\* the rows process r has passed to write_chunk
RowsWritten(r) ==
    UNION { (w[1] + 1)..w[2] : w \in { Ranges(procs[r].tr, "write_chunk")[i] :
                                         i \in 1..Count(procs[r].tr, "write_chunk") } }

\* C18 (as claimed): in a parallel run whose routine does not raise no
\* process ends in an error; a process that was handed a chunk calls
\* initialize_write once, with the full length; the rows written by
\* different processes are disjoint and, when all have ended, cover [0, L).
C18_ParallelRun ==
    (procs # <<>> /\ NoRaise) =>
        /\ \A r \in 1..Len(procs) : procs[r].pc # "ERROR"
        /\ \A r \in 1..Len(procs) :
              Count(procs[r].tr, "next") >= 1 =>
                  /\ Count(procs[r].tr, "initialize_write") = 1
                  /\ Calls(procs[r].tr, "initialize_write")[1].a = Len(input)
        /\ \A r1, r2 \in 1..Len(procs) :
              r1 # r2 => RowsWritten(r1) \cap RowsWritten(r2) = {}
        /\ (\A r \in 1..Len(procs) : procs[r].pc \in {"DONE", "ERROR"}) =>
              UNION { RowsWritten(r) : r \in 1..Len(procs) } = 1..Len(input)

\* what holds of a parallel run: everything C18 says except that a process
\* handed no chunk ends without error
ParallelRunOfBusyProcesses ==
    (procs # <<>> /\ NoRaise) =>
        /\ \A r \in 1..Len(procs) :
              procs[r].pc = "ERROR" =>
                  (procs[r].err = "AttributeError" /\ Count(procs[r].tr, "next") = 0)
        /\ \A r \in 1..Len(procs) :
              Count(procs[r].tr, "next") >= 1 =>
                  /\ Count(procs[r].tr, "initialize_write") = 1
                  /\ Calls(procs[r].tr, "initialize_write")[1].a = Len(input)
        /\ \A r1, r2 \in 1..Len(procs) :
              r1 # r2 => RowsWritten(r1) \cap RowsWritten(r2) = {}
        /\ (\A r \in 1..Len(procs) : procs[r].pc \in {"DONE", "ERROR"}) =>
              UNION { RowsWritten(r) : r \in 1..Len(procs) } = 1..Len(input)
====
